---- MODULE Spec2Model ----
(***************************************************************************)
(* Extractive summarizer: helpers.py (word-budget summarizer, chunker,     *)
(* fetchers returning (text, error)) and app.py (the Streamlit pipeline    *)
(* with its own sentence-count summarizer and its own fetchers).           *)
(*                                                                         *)
(* A Python str is a sequence of character tokens.  Every token is one     *)
(* character, except the block token BLK, which stands for a run of        *)
(* BlockWords words separated by single spaces, BlockChars characters in   *)
(* all, with no sentence terminator and no leading or trailing blank.      *)
(* len() and len(s.split()) count a block by its width and its words, so   *)
(* the 4000-character and 100-word constants keep their source values.     *)
(***************************************************************************)
EXTENDS Integers, Sequences, FiniteSets, TLC

\* ------------------------------------------------------------ bounds
MaxLen == 6          \* longest text of the chunker runs, in tokens
MaxChars == 5        \* largest max_chars of the chunker runs
MaxSumLen == 8       \* longest text of the summarize_lexrank runs
MaxWords == 3        \* largest max_words of the summarize_lexrank runs
MaxLongLen == 8      \* longest text of the summarize_long_text runs, in tokens
MaxSources == 2      \* most links plus uploads of one pipeline run
MaxAppSentences == 3 \* most sentences of one source text of a pipeline run
MaxAppWords == 2     \* most words of a sentence of such a text
MaxSlider == 6       \* largest slider value of the pipeline runs (the slider allows up to 12)
BlockWords == 60     \* words in one block token
BlockChars == 1500   \* characters in one block token

\* ------------------------------------------------------- characters
SP == " "
NL == "\n"
BLK == "B"
Ws == {SP, NL}                 \* \s
Term == {".", "!", "?"}        \* [.!?]

Width(c) == IF c = BLK THEN BlockChars ELSE 1

\* len(s)
RECURSIVE py_len(_)
py_len(s) == IF s = <<>> THEN 0 ELSE Width(Head(s)) + py_len(Tail(s))

RECURSIVE lstrip(_)
lstrip(s) == IF s = <<>> THEN s
             ELSE IF Head(s) \in Ws THEN lstrip(Tail(s)) ELSE s

RECURSIVE rstrip(_)
rstrip(s) == IF s = <<>> THEN s
             ELSE IF s[Len(s)] \in Ws THEN rstrip(SubSeq(s, 1, Len(s) - 1)) ELSE s

\* s.strip()
strip(s) == rstrip(lstrip(s))

\* s.split(): the maximal runs of non-blank characters, in order.
RECURSIVE SplitWsFrom(_, _, _)
SplitWsFrom(s, i, cur) ==
    IF i > Len(s) THEN (IF cur = <<>> THEN <<>> ELSE <<cur>>)
    ELSE IF s[i] \in Ws
         THEN (IF cur = <<>> THEN <<>> ELSE <<cur>>) \o SplitWsFrom(s, i + 1, <<>>)
         ELSE SplitWsFrom(s, i + 1, Append(cur, s[i]))

py_split(s) == SplitWsFrom(s, 1, <<>>)

\* The words one run of non-blank tokens holds: a block brings BlockWords
\* words, the first and last of which merge with the neighbouring tokens.
RECURSIVE RunWords(_)
RunWords(r) == IF r = <<>> THEN 1
               ELSE (IF Head(r) = BLK THEN BlockWords - 1 ELSE 0) + RunWords(Tail(r))

RECURSIVE SumRunWords(_)
SumRunWords(rs) == IF rs = <<>> THEN 0 ELSE RunWords(Head(rs)) + SumRunWords(Tail(rs))

\* len(s.split())
len_split(s) == SumRunWords(py_split(s))

\* The end of the blank run that starts at i.
RECURSIVE SkipWs(_, _)
SkipWs(s, i) == IF i <= Len(s) /\ s[i] \in Ws THEN SkipWs(s, i + 1) ELSE i

\* re.split(r'(?<=[.!?])\s+', s): cut at every blank run that directly
\* follows a terminator; the pieces before, between and after the cuts,
\* empty ones included.
RECURSIVE ReSplitFrom(_, _, _)
ReSplitFrom(s, i, cur) ==
    IF i > Len(s) THEN <<cur>>
    ELSE IF s[i] \in Ws /\ i > 1 /\ s[i - 1] \in Term
         THEN <<cur>> \o ReSplitFrom(s, SkipWs(s, i), <<>>)
         ELSE ReSplitFrom(s, i + 1, Append(cur, s[i]))

re_split(s) == ReSplitFrom(s, 1, <<>>)

\* sep.join(parts)
RECURSIVE join(_, _)
join(sep, parts) ==
    IF parts = <<>> THEN <<>>
    ELSE IF Len(parts) = 1 THEN parts[1]
    ELSE parts[1] \o sep \o join(sep, Tail(parts))

\* re.sub(r'\s+', ' ', t)
RECURSIVE CollapseWs(_, _)
CollapseWs(s, i) ==
    IF i > Len(s) THEN <<>>
    ELSE IF s[i] \in Ws THEN <<SP>> \o CollapseWs(s, SkipWs(s, i))
    ELSE <<s[i]>> \o CollapseWs(s, i + 1)

clean_text(t) == strip(CollapseWs(t, 1))

\* The sentences of a text: the pieces of re_split, trimmed, blanks dropped.
RECURSIVE TrimmedNonBlank(_)
TrimmedNonBlank(ps) ==
    IF ps = <<>> THEN <<>>
    ELSE (IF strip(Head(ps)) = <<>> THEN <<>> ELSE <<strip(Head(ps))>>)
         \o TrimmedNonBlank(Tail(ps))

SentencesOf(t) == TrimmedNonBlank(re_split(t))

RECURSIVE SentencesOfAll(_)
SentencesOfAll(cs) ==
    IF cs = <<>> THEN <<>> ELSE SentencesOf(Head(cs)) \o SentencesOfAll(Tail(cs))

\* All texts of at most n tokens over alphabet A.
TextsUpTo(A, n) == UNION {[1..k -> A] : k \in 0..n}

\* ---------------------------------------------------------- chunk_text
\* One iteration of the loop over sentences: st is (chunks, buf).
ChunkOverflowsNoSeparator(b, s, mc) == py_len(b) + py_len(s) > mc

ChunkOverflows(b, s, mc) == py_len(b) + py_len(s) + 1 > mc

ChunkFlushedUnchecked(cs, b) == Append(cs, strip(b))

ChunkFlushed(cs, b) == IF strip(b) # <<>> THEN Append(cs, strip(b)) ELSE cs

ChunkAppendedNoSeparator(b, s) == b \o s

ChunkAppended(b, s) == b \o (IF b # <<>> THEN <<SP>> ELSE <<>>) \o s

ChunkStep(st, s, mc) ==
    IF ChunkOverflows(st.buf, s, mc)
    THEN [chunks |-> ChunkFlushed(st.chunks, st.buf), buf |-> s]
    ELSE [chunks |-> st.chunks, buf |-> ChunkAppended(st.buf, s)]

RECURSIVE ChunkLoop(_, _, _)
ChunkLoop(st, ss, mc) ==
    IF ss = <<>> THEN st ELSE ChunkLoop(ChunkStep(st, Head(ss), mc), Tail(ss), mc)

chunk_text(t, mc) ==
    IF py_len(t) <= mc THEN <<t>>
    ELSE LET st == ChunkLoop([chunks |-> <<>>, buf |-> <<>>], re_split(t), mc)
         IN ChunkFlushed(st.chunks, st.buf)

VARIABLES pc, text, max_chars, sentences, chunks, buf, nbuf,
          max_words, path, summary_sents_all, cand_i, summary_sents,
          word_count, result,
          target_words, target_sentences, long_chunks, chunk_summaries,
          combined, final,
          max_sentences, urls, uploads, url_i, upl_i, sources, non_empty, empty,
          per_summaries, combined_text, overall, bullets, empty_report, shown_error

chunkVars == <<max_chars, sentences, chunks, buf, nbuf>>
sumVars == <<max_words, path, summary_sents_all, cand_i, summary_sents,
             word_count, result>>
longVars == <<target_words, target_sentences, long_chunks, chunk_summaries,
              combined, final>>
appVars == <<max_sentences, urls, uploads, url_i, upl_i, sources, non_empty, empty,
             per_summaries, combined_text, overall, bullets, empty_report,
             shown_error>>
vars == <<pc, text, chunkVars, sumVars, longVars, appVars>>
notChunkVars == <<sumVars, longVars, appVars>>
notSumVars == <<chunkVars, longVars, appVars>>
notLongVars == <<chunkVars, sumVars, appVars>>
notAppVars == <<text, chunkVars, sumVars, longVars>>

\* The variables of a function that is not running.
ChunkIdle ==
    /\ max_chars = 0
    /\ sentences = <<>>
    /\ chunks = <<>>
    /\ buf = <<>>
    /\ nbuf = 0

LongIdle ==
    /\ target_words = 0
    /\ target_sentences = 0
    /\ long_chunks = <<>>
    /\ chunk_summaries = <<>>
    /\ combined = <<>>
    /\ final = <<>>

AppIdle ==
    /\ max_sentences = 0
    /\ urls = <<>>
    /\ uploads = <<>>
    /\ url_i = 0
    /\ upl_i = 0
    /\ sources = <<>>
    /\ non_empty = <<>>
    /\ empty = <<>>
    /\ per_summaries = <<>>
    /\ combined_text = <<>>
    /\ overall = <<>>
    /\ bullets = <<>>
    /\ empty_report = <<>>
    /\ shown_error = FALSE

SumIdle ==
    /\ max_words = 0
    /\ path = "none"
    /\ summary_sents_all = <<>>
    /\ cand_i = 0
    /\ summary_sents = <<>>
    /\ word_count = 0
    /\ result = <<>>

ChunkAlphabet == {"a", ".", SP, NL}

\* chunk_text(text, max_chars) is called.
ChunkInit ==
    /\ pc = "chunk_entry"
    /\ text \in TextsUpTo(ChunkAlphabet, MaxLen)
    /\ max_chars \in 0..MaxChars
    /\ sentences = <<>>
    /\ chunks = <<>>
    /\ buf = <<>>
    /\ nbuf = 0
    /\ SumIdle
    /\ LongIdle
    /\ AppIdle

\* len(text) <= max_chars: return [text].
ChunkShort ==
    /\ pc = "chunk_entry"
    /\ py_len(text) <= max_chars
    /\ chunks' = <<text>>
    /\ pc' = "chunk_done"
    /\ UNCHANGED <<text, max_chars, sentences, buf, nbuf, notChunkVars>>

\* sentences = re.split(...); chunks, buf = [], "".
ChunkSplit ==
    /\ pc = "chunk_entry"
    /\ py_len(text) > max_chars
    /\ sentences' = re_split(text)
    /\ chunks' = <<>>
    /\ buf' = <<>>
    /\ nbuf' = 0
    /\ pc' = "chunk_loop"
    /\ UNCHANGED <<text, max_chars, notChunkVars>>

\* One iteration whose sentence does not fit: flush, restart the buffer.
ChunkFlush ==
    /\ pc = "chunk_loop"
    /\ sentences # <<>>
    /\ ChunkOverflows(buf, Head(sentences), max_chars)
    /\ chunks' = ChunkFlushed(chunks, buf)
    /\ buf' = Head(sentences)
    /\ nbuf' = 1
    /\ sentences' = Tail(sentences)
    /\ UNCHANGED <<pc, text, max_chars, notChunkVars>>

\* One iteration whose sentence fits: append it to the buffer.
ChunkAppend ==
    /\ pc = "chunk_loop"
    /\ sentences # <<>>
    /\ ~ChunkOverflows(buf, Head(sentences), max_chars)
    /\ buf' = ChunkAppended(buf, Head(sentences))
    /\ nbuf' = nbuf + 1
    /\ sentences' = Tail(sentences)
    /\ UNCHANGED <<pc, text, max_chars, chunks, notChunkVars>>

\* After the loop: flush what is left and return chunks.
ChunkFinish ==
    /\ pc = "chunk_loop"
    /\ sentences = <<>>
    /\ chunks' = ChunkFlushed(chunks, buf)
    /\ pc' = "chunk_done"
    /\ UNCHANGED <<text, max_chars, sentences, buf, nbuf, notChunkVars>>

ChunkNext == ChunkShort \/ ChunkSplit \/ ChunkFlush \/ ChunkAppend \/ ChunkFinish

SpecChunk == ChunkInit /\ [][ChunkNext]_vars


\* --------------------------------------------- summarize_lexrank (helpers)
\* The sentences PlaintextParser finds in a text, as str(s) gives them:
\* the tokenizer is a library; it is modelled by the repository's own
\* sentence rule, each sentence trimmed and the blank ones dropped.
document_sentences(t) == SentencesOf(t)

\* What LexRankSummarizer may return when asked for every sentence of the
\* document: the sentences in any order (the scores are not modelled).
RankOrders(t) ==
    LET ds == document_sentences(t)
        n == Len(ds)
    IN {[i \in 1..n |-> ds[p[i]]] : p \in Permutations(1..n)}

\* The loop's test: the next sentence would exceed the budget.
SelectExceedsLate(wc, s, w) == wc > w

SelectExceedsStrict(wc, s, w) == wc + len_split(s) >= w

SelectExceeds(wc, s, w) == wc + len_split(s) > w

\* The loop over the candidates from position i on: st is
\* (summary_sents, word_count).
RECURSIVE SelectLoop(_, _, _, _)
SelectLoop(st, cs, i, w) ==
    IF i > Len(cs) \/ SelectExceeds(st.word_count, cs[i], w) THEN st
    ELSE SelectLoop([summary_sents |-> Append(st.summary_sents, cs[i]),
                     word_count |-> st.word_count + len_split(cs[i])],
                    cs, i + 1, w)

Selected(cs, w) ==
    join(<<SP>>, SelectLoop([summary_sents |-> <<>>, word_count |-> 0], cs, 1, w).summary_sents)

\* Every value summarize_lexrank(t, w) can return: the primary path for each
\* order the ranker may give, and the fallback path when the try block raises.
summarize_lexrank(t, w) ==
    {Selected(cs, w) : cs \in RankOrders(t)} \cup {Selected(re_split(t), w)}

SumAlphabet == {"a", ".", SP}

\* summarize_lexrank(text, max_words) is called.
SumInit ==
    /\ pc = "sum_entry"
    /\ text \in TextsUpTo(SumAlphabet, MaxSumLen)
    /\ max_words \in 0..MaxWords
    /\ path = "none"
    /\ summary_sents_all = <<>>
    /\ cand_i = 0
    /\ summary_sents = <<>>
    /\ word_count = 0
    /\ result = <<>>
    /\ ChunkIdle
    /\ LongIdle
    /\ AppIdle

\* The try block parses and ranks without raising.
SumRank ==
    /\ pc = "sum_entry"
    /\ \E cs \in RankOrders(text) : summary_sents_all' = cs
    /\ path' = "primary"
    /\ cand_i' = 1
    /\ summary_sents' = <<>>
    /\ word_count' = 0
    /\ pc' = "sum_loop"
    /\ UNCHANGED <<text, max_words, result, notSumVars>>

\* The try block raises: the except branch splits the text itself.
SumRaise ==
    /\ pc = "sum_entry"
    /\ summary_sents_all' = re_split(text)
    /\ path' = "fallback"
    /\ cand_i' = 1
    /\ summary_sents' = <<>>
    /\ word_count' = 0
    /\ pc' = "sum_loop"
    /\ UNCHANGED <<text, max_words, result, notSumVars>>

\* One iteration that keeps the sentence.
SumTake ==
    /\ pc = "sum_loop"
    /\ cand_i <= Len(summary_sents_all)
    /\ ~SelectExceeds(word_count, summary_sents_all[cand_i], max_words)
    /\ summary_sents' = Append(summary_sents, summary_sents_all[cand_i])
    /\ word_count' = word_count + len_split(summary_sents_all[cand_i])
    /\ cand_i' = cand_i + 1
    /\ UNCHANGED <<pc, text, max_words, path, summary_sents_all, result, notSumVars>>

\* One iteration that breaks, and the return after it.
SumBreak ==
    /\ pc = "sum_loop"
    /\ cand_i <= Len(summary_sents_all)
    /\ SelectExceeds(word_count, summary_sents_all[cand_i], max_words)
    /\ result' = join(<<SP>>, summary_sents)
    /\ pc' = "sum_done"
    /\ UNCHANGED <<text, max_words, path, summary_sents_all, cand_i,
                   summary_sents, word_count, notSumVars>>

\* The candidates are exhausted: return.
SumReturn ==
    /\ pc = "sum_loop"
    /\ cand_i > Len(summary_sents_all)
    /\ result' = join(<<SP>>, summary_sents)
    /\ pc' = "sum_done"
    /\ UNCHANGED <<text, max_words, path, summary_sents_all, cand_i,
                   summary_sents, word_count, notSumVars>>

SumNext == SumRank \/ SumRaise \/ SumTake \/ SumBreak \/ SumReturn

SpecSumm == SumInit /\ [][SumNext]_vars


\* ------------------------------------------- summarize_long_text (helpers)
LongMaxChars == 4000       \* chunk_text(text, max_chars=4000)
ChunkMaxWords == 100       \* summarize_lexrank(c, max_words=100)
DefaultTargetWords == 150  \* target_words: int = 150

LongAlphabet == {BLK, ".", SP}
LongBudgets == {0, BlockWords, DefaultTargetWords}

\* summarize_long_text(text, target_words) is called.
LongInit ==
    /\ pc = "long_entry"
    /\ text \in TextsUpTo(LongAlphabet, MaxLongLen)
    /\ target_words \in LongBudgets
    /\ target_sentences = 0
    /\ long_chunks = <<>>
    /\ chunk_summaries = <<>>
    /\ combined = <<>>
    /\ final = <<>>
    /\ ChunkIdle
    /\ SumIdle
    /\ AppIdle

\* chunks = chunk_text(text, max_chars=4000)
LongChunk ==
    /\ pc = "long_entry"
    /\ long_chunks' = chunk_text(text, LongMaxChars)
    /\ chunk_summaries' = <<>>
    /\ pc' = "long_chunks"
    /\ UNCHANGED <<text, target_words, target_sentences, combined, final, notLongVars>>

\* One element of the list comprehension: summarize_lexrank(c, max_words=100).
LongSummarizeChunk ==
    /\ pc = "long_chunks"
    /\ Len(chunk_summaries) < Len(long_chunks)
    /\ \E r \in summarize_lexrank(long_chunks[Len(chunk_summaries) + 1], ChunkMaxWords) :
          chunk_summaries' = Append(chunk_summaries, r)
    /\ UNCHANGED <<pc, text, target_words, target_sentences, long_chunks, combined,
                   final, notLongVars>>

\* combined = "\n".join(chunk_summaries)
LongCombine ==
    /\ pc = "long_chunks"
    /\ Len(chunk_summaries) = Len(long_chunks)
    /\ combined' = join(<<NL>>, chunk_summaries)
    /\ pc' = "long_final"
    /\ UNCHANGED <<text, target_words, target_sentences, long_chunks, chunk_summaries,
                   final, notLongVars>>

\* final = summarize_lexrank(combined, max_words=target_words); return final
LongFinal ==
    /\ pc = "long_final"
    /\ \E r \in summarize_lexrank(combined, target_words) : final' = r
    /\ pc' = "long_done"
    /\ UNCHANGED <<text, target_words, target_sentences, long_chunks, chunk_summaries,
                   combined, notLongVars>>

LongNext == LongChunk \/ LongSummarizeChunk \/ LongCombine \/ LongFinal

SpecLong == LongInit /\ [][LongNext]_vars

\* ----------------------------------------------- the summarizer of app.py
SliderMin == 3      \* st.slider(..., min_value=3, ...)
PerChunkMin == 3    \* per_chunk = max(3, min(7, target_sentences))
PerChunkMax == 7

Min(a, b) == IF a < b THEN a ELSE b
Max(a, b) == IF a > b THEN a ELSE b

\* cs[:n]
Prefix(cs, n) == SubSeq(cs, 1, Min(n, Len(cs)))

\* What LexRankSummarizer may return when asked for n sentences: n of the
\* document's sentences (all of them if there are fewer), in any order.
RankTop(t, n) == {Prefix(cs, n) : cs \in RankOrders(t)}

\* Every value app.py's summarize_lexrank(t, sentences=n) can return.
app_summarize_lexrank(t, n) ==
    {join(<<SP>>, cs) : cs \in RankTop(t, n)}
        \cup {join(<<SP>>, Prefix(re_split(t), n))}

per_chunk(n) == Max(PerChunkMin, Min(PerChunkMax, n))

\* summarize_long_text(text, target_sentences) of app.py is called.
AppLongInit ==
    /\ pc = "applong_entry"
    /\ text \in TextsUpTo(LongAlphabet, MaxLongLen)
    /\ target_sentences \in SliderMin..(SliderMin + 1)
    /\ target_words = 0
    /\ long_chunks = <<>>
    /\ chunk_summaries = <<>>
    /\ combined = <<>>
    /\ final = <<>>
    /\ ChunkIdle
    /\ SumIdle
    /\ AppIdle

\* chunks = chunk_text(text, max_chars=4000)
AppLongChunk ==
    /\ pc = "applong_entry"
    /\ long_chunks' = chunk_text(text, LongMaxChars)
    /\ chunk_summaries' = <<>>
    /\ pc' = "applong_chunks"
    /\ UNCHANGED <<text, target_words, target_sentences, combined, final, notLongVars>>

\* One element of the list comprehension: summarize_lexrank(c, sentences=per_chunk).
AppLongSummarizeChunk ==
    /\ pc = "applong_chunks"
    /\ Len(chunk_summaries) < Len(long_chunks)
    /\ \E r \in app_summarize_lexrank(long_chunks[Len(chunk_summaries) + 1],
                                      per_chunk(target_sentences)) :
          chunk_summaries' = Append(chunk_summaries, r)
    /\ UNCHANGED <<pc, text, target_words, target_sentences, long_chunks, combined,
                   final, notLongVars>>

\* combined = "\n".join(chunk_summaries)
AppLongCombine ==
    /\ pc = "applong_chunks"
    /\ Len(chunk_summaries) = Len(long_chunks)
    /\ combined' = join(<<NL>>, chunk_summaries)
    /\ pc' = "applong_final"
    /\ UNCHANGED <<text, target_words, target_sentences, long_chunks, chunk_summaries,
                   final, notLongVars>>

\* final = summarize_lexrank(combined, sentences=target_sentences); return final
AppLongFinal ==
    /\ pc = "applong_final"
    /\ \E r \in app_summarize_lexrank(combined, target_sentences) : final' = r
    /\ pc' = "applong_done"
    /\ UNCHANGED <<text, target_words, target_sentences, long_chunks, chunk_summaries,
                   combined, notLongVars>>

AppLongNext == AppLongChunk \/ AppLongSummarizeChunk \/ AppLongCombine \/ AppLongFinal

SpecAppLong == AppLongInit /\ [][AppLongNext]_vars


\* ------------------------------------------------ the pipeline of app.py
\* Every sequence of summaries the list comprehension over cs can give.
RECURSIVE AppChunkSummaries(_, _)
AppChunkSummaries(cs, n) ==
    IF cs = <<>> THEN {<<>>}
    ELSE {<<r>> \o rest : r \in app_summarize_lexrank(Head(cs), per_chunk(n)),
                          rest \in AppChunkSummaries(Tail(cs), n)}

\* Every value app.py's summarize_long_text(t, target_sentences=n) can return.
app_summarize_long_text(t, n) ==
    UNION {app_summarize_lexrank(join(<<NL>>, sums), n) :
              sums \in AppChunkSummaries(chunk_text(t, LongMaxChars), n)}

\* Source texts of the pipeline runs: k sentences of wn words each.
SampleSentence(wn) == join(<<SP>>, [i \in 1..wn |-> <<"a">>]) \o <<".">>
SampleText(k, wn) == join(<<SP>>, [i \in 1..k |-> SampleSentence(wn)])
AppTexts ==
    {SampleText(k, wn) : k \in 0..MaxAppSentences, wn \in 1..MaxAppWords}
        \cup {<<SP, NL>>}

\* What a collaborator can do, as app.py's fetchers see it: return text,
\* return nothing for the given cause, or raise.
WebCauses == {"download_failed", "no_main_text"}
YouTubeCauses == {"transcripts_disabled", "video_unavailable", "no_transcript"}
TextOutcomes == {[how |-> "text", text |-> t] : t \in AppTexts}
CauseOutcomes(cs) == {[how |-> c, text |-> <<>>] : c \in cs}
Raises == [how |-> "raise", text |-> <<>>]

UrlEntries ==
    {[kind |-> "web", out |-> o] :
        o \in TextOutcomes \cup CauseOutcomes(WebCauses) \cup {Raises}}
    \cup {[kind |-> "youtube", out |-> o] :
        o \in TextOutcomes \cup CauseOutcomes(YouTubeCauses)}

UploadEntries ==
    {[kind |-> "pdf", out |-> o] : o \in TextOutcomes \cup {Raises}}
    \cup {[kind |-> "txt", out |-> o] : o \in TextOutcomes}

SeqsUpTo(S, n) == UNION {[1..k -> S] : k \in 0..n}

\* fetch_web_text, fetch_youtube_transcript, read_pdf and data.decode of
\* app.py: the text, or "" when the collaborator gave nothing.
AppFetched(e) == IF e.out.how = "text" THEN e.out.text ELSE <<>>

\* fetch_web_text and read_pdf of app.py have no try block.
AppFetchRaises(e) == e.out.how = "raise" /\ e.kind \in {"web", "pdf"}

NoTextMessage == "no text found or transcript disabled"

\* [x for x in xs if keep(x)] over the collected sources.
RECURSIVE NonEmptyOf(_)
NonEmptyOf(ss) ==
    IF ss = <<>> THEN <<>>
    ELSE (IF strip(Head(ss).txt) # <<>> THEN <<Head(ss)>> ELSE <<>>)
         \o NonEmptyOf(Tail(ss))

RECURSIVE EmptyOf(_)
EmptyOf(ss) ==
    IF ss = <<>> THEN <<>>
    ELSE (IF strip(Head(ss).txt) = <<>> THEN <<Head(ss).label>> ELSE <<>>)
         \o EmptyOf(Tail(ss))

\* bullets[: max(5, max_sentences)] of the trimmed non-empty pieces.
BulletCap(n) == Max(5, n)
BulletsOf(o, n) == Prefix(TrimmedNonBlank(re_split(o)), BulletCap(n))

\* The button is pressed with the given links, uploads and slider value.
AppInit ==
    /\ pc = "app_collect"
    /\ max_sentences \in SliderMin..MaxSlider
    /\ urls \in SeqsUpTo(UrlEntries, MaxSources)
    /\ uploads \in SeqsUpTo(UploadEntries, MaxSources)
    /\ Len(urls) + Len(uploads) <= MaxSources
    /\ url_i = 1
    /\ upl_i = 1
    /\ sources = <<>>
    /\ non_empty = <<>>
    /\ empty = <<>>
    /\ per_summaries = <<>>
    /\ combined_text = <<>>
    /\ overall = <<>>
    /\ bullets = <<>>
    /\ empty_report = <<>>
    /\ shown_error = FALSE
    /\ text = <<>>
    /\ ChunkIdle
    /\ SumIdle
    /\ LongIdle

\* One iteration of "for u in urls".
AppCollectUrl ==
    /\ pc = "app_collect"
    /\ url_i <= Len(urls)
    /\ ~AppFetchRaises(urls[url_i])
    /\ LET e == urls[url_i]
           txt == AppFetched(e)
           label == [kind |-> e.kind, n |-> url_i]
       IN sources' = Append(sources,
              [label |-> label, txt |-> IF txt # <<>> THEN clean_text(txt) ELSE <<>>])
    /\ url_i' = url_i + 1
    /\ UNCHANGED <<pc, max_sentences, urls, uploads, upl_i, non_empty, empty,
                   per_summaries, combined_text, overall, bullets, empty_report,
                   shown_error, notAppVars>>

\* One iteration of "for f in uploads".
AppCollectUpload ==
    /\ pc = "app_collect"
    /\ url_i > Len(urls)
    /\ upl_i <= Len(uploads)
    /\ ~AppFetchRaises(uploads[upl_i])
    /\ LET e == uploads[upl_i]
           label == [kind |-> e.kind, n |-> Len(urls) + upl_i]
       IN sources' = Append(sources, [label |-> label, txt |-> clean_text(AppFetched(e))])
    /\ upl_i' = upl_i + 1
    /\ UNCHANGED <<pc, max_sentences, urls, uploads, url_i, non_empty, empty,
                   per_summaries, combined_text, overall, bullets, empty_report,
                   shown_error, notAppVars>>

\* The fetcher of the current link or upload raises: nothing catches it and
\* the run ends there.
AppCollectRaises ==
    /\ pc = "app_collect"
    /\ \/ url_i <= Len(urls) /\ AppFetchRaises(urls[url_i])
       \/ url_i > Len(urls) /\ upl_i <= Len(uploads) /\ AppFetchRaises(uploads[upl_i])
    /\ pc' = "app_aborted"
    /\ UNCHANGED <<appVars, notAppVars>>

\* "Filter out empty", then st.error when nothing is left.
AppFilter ==
    /\ pc = "app_collect"
    /\ url_i > Len(urls)
    /\ upl_i > Len(uploads)
    /\ non_empty' = NonEmptyOf(sources)
    /\ empty' = EmptyOf(sources)
    /\ shown_error' = (NonEmptyOf(sources) = <<>>)
    /\ pc' = IF NonEmptyOf(sources) = <<>> THEN "app_report" ELSE "app_per_source"
    /\ UNCHANGED <<max_sentences, urls, uploads, url_i, upl_i, sources, per_summaries,
                   combined_text, overall, bullets, empty_report, notAppVars>>

\* One iteration of "for label, txt in non_empty".
AppSummarizeSource ==
    /\ pc = "app_per_source"
    /\ Len(per_summaries) < Len(non_empty)
    /\ LET src == non_empty[Len(per_summaries) + 1]
       IN \E summary \in app_summarize_long_text(src.txt, max_sentences) :
             per_summaries' = Append(per_summaries,
                                     [label |-> src.label, summary |-> summary])
    /\ UNCHANGED <<pc, max_sentences, urls, uploads, url_i, upl_i, sources, non_empty,
                   empty, combined_text, overall, bullets, empty_report, shown_error,
                   notAppVars>>

\* combined_text = "\n\n".join(...); overall = summarize_long_text(...)
AppConsolidate ==
    /\ pc = "app_per_source"
    /\ Len(per_summaries) = Len(non_empty)
    /\ LET ct == join(<<NL, NL>>, [i \in 1..Len(per_summaries) |-> per_summaries[i].summary])
       IN /\ combined_text' = ct
          /\ \E o \in app_summarize_long_text(ct, max_sentences) : overall' = o
    /\ pc' = "app_bullets"
    /\ UNCHANGED <<max_sentences, urls, uploads, url_i, upl_i, sources, non_empty,
                   empty, per_summaries, bullets, empty_report, shown_error, notAppVars>>

\* The "Crisp takeaways" list.
AppBullets ==
    /\ pc = "app_bullets"
    /\ bullets' = BulletsOf(overall, max_sentences)
    /\ pc' = "app_report"
    /\ UNCHANGED <<max_sentences, urls, uploads, url_i, upl_i, sources, non_empty,
                   empty, per_summaries, combined_text, overall, empty_report,
                   shown_error, notAppVars>>

\* "if empty": one line per label, all with the same message.
AppReport ==
    /\ pc = "app_report"
    /\ empty_report' = [i \in 1..Len(empty) |-> [label |-> empty[i], reason |-> NoTextMessage]]
    /\ pc' = "app_done"
    /\ UNCHANGED <<max_sentences, urls, uploads, url_i, upl_i, sources, non_empty,
                   empty, per_summaries, combined_text, overall, bullets, shown_error,
                   notAppVars>>

AppNext ==
    \/ AppCollectUrl
    \/ AppCollectUpload
    \/ AppCollectRaises
    \/ AppFilter
    \/ AppSummarizeSource
    \/ AppConsolidate
    \/ AppBullets
    \/ AppReport

SpecApp == AppInit /\ [][AppNext]_vars

IsBlank(t) == strip(t) = <<>>

\* C3: the chunks chunk_text returns, joined with single spaces, are
\* whitespace-equivalent to the text, and they hold the sentences of the
\* text in their original order, none lost, duplicated or split.
C3_ChunksPreserveText ==
    pc = "chunk_done" =>
        /\ clean_text(join(<<SP>>, chunks)) = clean_text(text)
        /\ SentencesOfAll(chunks) = SentencesOf(text)

\* A run of the greedy loop that returned several chunks, one of them
\* holding more than one sentence.
C3_Witness ==
    /\ pc = "chunk_done"
    /\ py_len(text) > max_chars
    /\ Len(chunks) >= 2
    /\ \E i \in 1..Len(chunks) : Len(SentencesOf(chunks[i])) >= 2

\* A chunk that is one sentence of the text which is longer than max_chars.
IsOversizedSentence(c) ==
    \E i \in 1..Len(re_split(text)) :
        /\ c = strip(re_split(text)[i])
        /\ py_len(re_split(text)[i]) > max_chars

\* C4: every chunk is at most max_chars long unless it is exactly one
\* sentence that is itself longer than max_chars, and in the loop the
\* buffer never exceeds max_chars once it holds two or more sentences.
C4_ChunkLengthBound ==
    /\ \A i \in 1..Len(chunks) :
          py_len(chunks[i]) <= max_chars \/ IsOversizedSentence(chunks[i])
    /\ (pc = "chunk_loop" /\ nbuf >= 2) => py_len(buf) <= max_chars

\* The loop has flushed a chunk and now holds a buffer of two sentences
\* that fills max_chars exactly.
C4_Witness ==
    /\ pc = "chunk_loop"
    /\ chunks # <<>>
    /\ nbuf >= 2
    /\ py_len(buf) = max_chars

\* C5 as stated: an empty or whitespace-only text yields no chunks, for
\* every max_chars.
C5_BlankYieldsNoChunks ==
    (pc = "chunk_done" /\ IsBlank(text)) => chunks = <<>>

\* C5 amended: an empty or whitespace-only text yields no chunks when it is
\* longer than max_chars, and the single chunk [text] otherwise.
C5_BlankChunks ==
    (pc = "chunk_done" /\ IsBlank(text)) =>
        chunks = (IF py_len(text) <= max_chars THEN <<text>> ELSE <<>>)

\* A whitespace-only text longer than max_chars went through the loop.
C5_Witness ==
    /\ pc = "chunk_done"
    /\ IsBlank(text)
    /\ text # <<>>
    /\ py_len(text) > max_chars
    /\ chunks = <<>>

RECURSIVE TotalWords(_)
TotalWords(cs) == IF cs = <<>> THEN 0 ELSE len_split(Head(cs)) + TotalWords(Tail(cs))

\* C1: for every text and budget w >= 0 the string summarize_lexrank
\* returns has at most w whitespace-separated words, on the primary path
\* and on the fallback path.
C1_SummaryWithinBudget ==
    /\ pc = "sum_loop" => word_count <= max_words
    /\ pc = "sum_done" => len_split(result) <= max_words

\* The fallback path returned a summary that uses the whole budget and
\* left a candidate out.
C1_Witness ==
    /\ pc = "sum_done"
    /\ path = "fallback"
    /\ max_words > 0
    /\ len_split(result) = max_words
    /\ cand_i <= Len(summary_sents_all)

\* The longest prefix of cs whose cumulative word count is at most w.
LongestPrefixWithin(cs, w) ==
    LET fits == {k \in 0..Len(cs) : TotalWords(SubSeq(cs, 1, k)) <= w}
    IN SubSeq(cs, 1, CHOOSE k \in fits : \A j \in fits : j <= k)

\* C10: the result is the space-joined longest prefix of the candidate list
\* (ranker order on the primary path, original sentence order on the
\* fallback path) whose cumulative word count is at most w; it is empty if
\* the first candidate alone exceeds w.
C10_LongestPrefix ==
    pc = "sum_done" =>
        /\ path = "fallback" => summary_sents_all = re_split(text)
        /\ path = "primary" => summary_sents_all \in RankOrders(text)
        /\ result = join(<<SP>>, LongestPrefixWithin(summary_sents_all, max_words))
        /\ (summary_sents_all # <<>> /\ len_split(summary_sents_all[1]) > max_words)
              => result = <<>>

\* The primary path stopped at a candidate that did not fit although a
\* later candidate would have fit.
C10_Witness ==
    /\ pc = "sum_done"
    /\ path = "primary"
    /\ summary_sents # <<>>
    /\ cand_i < Len(summary_sents_all)
    /\ \E j \in (cand_i + 1)..Len(summary_sents_all) :
          word_count + len_split(summary_sents_all[j]) <= max_words

\* The contract of the hierarchical summarizer with budget w: one
\* intermediate summary per chunk of chunk_text(text, 4000), each of at most
\* 100 words, newline-joined in chunk order, and a final result of at most
\* w words.
LongTextContract(w) ==
    /\ pc \in {"long_chunks", "applong_chunks"} =>
          Len(chunk_summaries) <= Len(long_chunks)
    /\ pc \in {"long_final", "long_done", "applong_final", "applong_done"} =>
          /\ long_chunks = chunk_text(text, LongMaxChars)
          /\ Len(chunk_summaries) = Len(long_chunks)
          /\ combined = join(<<NL>>, chunk_summaries)
    /\ \A i \in 1..Len(chunk_summaries) : len_split(chunk_summaries[i]) <= ChunkMaxWords
    /\ pc \in {"long_done", "applong_done"} => len_split(final) <= w

\* The contract holds of helpers.summarize_long_text (SpecLong).
HelpersLongTextContract == LongTextContract(target_words)

\* C2: summarize_long_text(text, w) makes one intermediate summary per
\* chunk, each of at most 100 words, joins them with newlines in chunk
\* order and returns a summary of at most w words.  Stated of
\* app.summarize_long_text, whose budget parameter is target_sentences.
C2_LongTextContract == LongTextContract(target_sentences)

\* C6: an empty or whitespace-only text makes summarize_lexrank (here the
\* per-chunk call) and summarize_long_text return the empty string.
C6_BlankGivesEmpty ==
    IsBlank(text) =>
        /\ \A i \in 1..Len(chunk_summaries) : chunk_summaries[i] = <<>>
        /\ pc = "long_done" => final = <<>>

\* C7: the bullet digest has at most 5 entries, each a trimmed non-empty
\* string, whatever summary length was configured.
C7_AtMostFiveBullets ==
    /\ Len(bullets) <= 5
    /\ \A i \in 1..Len(bullets) : bullets[i] # <<>> /\ strip(bullets[i]) = bullets[i]

\* The inputs of the run in input order, links first.
AppInputs == urls \o uploads

\* C8: each source lands in exactly one of two outputs: the sources with
\* non-empty trimmed text get one per-source summary each, in input order,
\* and only their summaries feed the consolidated summary; every other
\* source is reported separately with its own failure reason.
C8_SourcesPartitioned ==
    pc = "app_done" =>
        LET usable == {i \in 1..Len(sources) : strip(sources[i].txt) # <<>>}
            reported == {empty_report[j].label.n : j \in 1..Len(empty_report)}
            summarised == {per_summaries[j].label.n : j \in 1..Len(per_summaries)}
        IN /\ Len(sources) = Len(AppInputs)
           /\ reported = (1..Len(sources)) \ usable
           /\ Len(empty_report) = Cardinality(reported)
           /\ usable # {} =>
                 /\ summarised = usable
                 /\ Len(per_summaries) = Cardinality(usable)
                 /\ \A j \in 1..(Len(per_summaries) - 1) :
                       per_summaries[j].label.n < per_summaries[j + 1].label.n
                 /\ combined_text = join(<<NL, NL>>,
                       [j \in 1..Len(per_summaries) |-> per_summaries[j].summary])
           /\ usable = {} => per_summaries = <<>> /\ overall = <<>>
           /\ \A j \in 1..Len(empty_report) :
                 LET out == AppInputs[empty_report[j].label.n].out
                 IN out.how # "text" => empty_report[j].reason = out.how

\* C9: no failure of a fetch or extraction collaborator aborts a pipeline
\* run; the run always completes with a result.
C9_FailureNeverAborts == pc # "app_aborted"

====
